---- MODULE Spec2Model ----
(***************************************************************************)
(* A model of ssterm.py (simple serial-port terminal, version 1.8).        *)
(*                                                                         *)
(* Characters are modelled by their byte values (ord), strings by          *)
(* sequences of byte values.  The module-level globals of ssterm.py keep   *)
(* their names.                                                            *)
(***************************************************************************)
EXTENDS Integers, Sequences, FiniteSets, TLC

VARIABLES
    pc,                 \* position of the main program / of the harness
    options,            \* the options of the command line, as getopt returns them
    opt_i,              \* the number of options the loop over them has handled
    has_device,         \* a serial port device argument was given
    Format_Options,     \* output_mode, input_mode, transmit/receive_newline, echo
    Color_Chars,        \* byte value -> colour slot
    txhex_state,        \* state used by format_tx_hex
    rxnl_state,         \* state used by format_rx_nlsub
    stdout_cursor_x,    \* state used by format_print_hexadecimal
    stdout_split_bytes, \* state used by format_print_split
    ready,              \* descriptors select() reported that are not yet handled
    iter,               \* number of select() calls made so far
    serial_tx,          \* bytes the serial channel has accepted
    console,            \* bytes the console sink has accepted
    serial_offered,     \* bytes of the fd_write calls on the serial port that returned
    console_offered,    \* bytes of the fd_write calls on stdout that returned
    last_read,          \* last result of fd_read on stdin, on the serial port
    stdin_mode,         \* "cooked" or "raw"
    serial_fd,          \* "none", "open" or "closed"
    cause,              \* why read_write_loop ended
    exit_code,          \* process exit status, -1 while running
    stream,             \* harness: the logical input stream
    chunks,             \* harness: the chunks of stream fed so far, in order
    acc                 \* harness: concatenation of the returned strings

cfg_vars == << options, opt_i, has_device, Format_Options, Color_Chars >>
state_vars == << txhex_state, rxnl_state, stdout_cursor_x, stdout_split_bytes >>
io_vars == << serial_tx, serial_offered, console, console_offered, last_read >>
tty_vars == << stdin_mode, serial_fd >>
harness_vars == << stream, chunks, acc >>

vars == << pc, cfg_vars, state_vars, io_vars, tty_vars, harness_vars, ready,
           iter, cause, exit_code >>

----------------------------------------------------------------------------
(* Bounds of the model *)

\* longest stream drawn for the transformer harnesses
MaxStream == 4
\* longest byte sequence drawn for the hex round trip
MaxBytes == 2
\* number of select() calls the relay loop is followed for
MaxIter == 2

----------------------------------------------------------------------------
(* Characters *)

Ord_CR == 13
Ord_LF == 10
Ord_Bar == 124
Ord_Comma == 44

string_lowercase ==
    << "a", "b", "c", "d", "e", "f", "g", "h", "i", "j", "k", "l", "m",
       "n", "o", "p", "q", "r", "s", "t", "u", "v", "w", "x", "y", "z" >>
string_uppercase ==
    << "A", "B", "C", "D", "E", "F", "G", "H", "I", "J", "K", "L", "M",
       "N", "O", "P", "Q", "R", "S", "T", "U", "V", "W", "X", "Y", "Z" >>
string_digits == << "0", "1", "2", "3", "4", "5", "6", "7", "8", "9" >>

IndexIn(seq, c) == CHOOSE i \in 1..Len(seq) : seq[i] = c
Occurs(seq, c) == \E i \in 1..Len(seq) : seq[i] = c

\* ord() of the characters the model writes as one-character strings
Ord(c) ==
    IF Occurs(string_lowercase, c) THEN 96 + IndexIn(string_lowercase, c)
    ELSE IF Occurs(string_uppercase, c) THEN 64 + IndexIn(string_uppercase, c)
    ELSE IF Occurs(string_digits, c) THEN 47 + IndexIn(string_digits, c)
    ELSE CASE c = " " -> 32 [] c = "$" -> 36 [] c = "," -> 44 [] c = "." -> 46
           [] c = ";" -> 59 [] c = "[" -> 91 [] c = "|" -> 124
           [] c = "\n" -> 10 [] c = "\r" -> 13

\* a text given as a tuple of one-character strings, as byte values
Str(t) == [i \in 1..Len(t) |-> Ord(t[i])]

RECURSIVE Concat(_)
Concat(ss) == IF ss = << >> THEN << >> ELSE Head(ss) \o Concat(Tail(ss))

\* F(v), with v evaluated once before F uses it
Bind(v, F(_)) == CHOOSE y \in {F(w) : w \in {v}} : TRUE

\* os.linesep on the platforms termios exists on
Console_Newline == << Ord_LF >>

\* Python's None, where a string is expected
None == << -1 >>

\* Newline substitution tables
RX_Newline_Sub ==
    [raw |-> None, cr |-> << Ord_CR >>, crlf |-> << Ord_CR, Ord_LF >>,
     lf |-> << Ord_LF >>, crorlf |-> << Ord_CR, Ord_Bar, Ord_LF >>]
TX_Newline_Sub ==
    [raw |-> None, cr |-> << Ord_CR >>, crlf |-> << Ord_CR, Ord_LF >>,
     lf |-> << Ord_LF >>, none |-> << >>]

\* string.hexdigits = "0123456789abcdefABCDEF"
string_hexdigits == (48..57) \cup (97..102) \cup (65..70)

----------------------------------------------------------------------------
(* Transmit transformers *)

\* format_tx_nlsub: every console newline in data becomes sub
format_tx_nlsub(data, sub) ==
    Concat([i \in 1..Len(data) |->
              IF << data[i] >> = Console_Newline THEN sub ELSE << data[i] >>])

\* the value of one hexadecimal digit, as int(.., 16) reads it
HexDigitValue(x) ==
    IF x \in 48..57 THEN x - 48
    ELSE IF x \in 97..102 THEN x - 97 + 10
    ELSE x - 65 + 10

\* chr(int(txhex_state, 16)) for a two-digit txhex_state
TxHexByteSwapped(s) == 16 * HexDigitValue(s[2]) + HexDigitValue(s[1])
TxHexByte(s) == 16 * HexDigitValue(s[1]) + HexDigitValue(s[2])

\* one turn of format_tx_hex's loop over data: the new txhex_state and what
\* is appended to hex_data
TxHexStepNoReset(state, x) ==
    LET s1 == IF x \in string_hexdigits THEN Append(state, x) ELSE state
    IN  IF Len(s1) = 2 THEN [state |-> << >>, out |-> << TxHexByte(s1) >>]
        ELSE [state |-> s1, out |-> << >>]
TxHexStep(state, x) ==
    LET s1 == IF x \in string_hexdigits THEN Append(state, x) ELSE << >>
    IN  IF Len(s1) = 2 THEN [state |-> << >>, out |-> << TxHexByte(s1) >>]
        ELSE [state |-> s1, out |-> << >>]

RECURSIVE TxHexLoop(_, _, _)
TxHexLoop(data, state, hex_data) ==
    IF data = << >> THEN [data |-> hex_data, state |-> state]
    ELSE Bind(TxHexStep(state, Head(data)),
              LAMBDA r : TxHexLoop(Tail(data), r.state, hex_data \o r.out))

\* format_tx_hex(data) called with txhex_state = state: the returned string
\* and the txhex_state it leaves
format_tx_hex_local(data, state) == TxHexLoop(data, << >>, << >>)
format_tx_hex(data, state) == TxHexLoop(data, state, << >>)

----------------------------------------------------------------------------
(* Receive transformer *)

\* the alternatives of a pattern "p1|p2|..." of literal characters
RECURSIVE Alternatives(_, _)
Alternatives(match, cur) ==
    IF match = << >> THEN << cur >>
    ELSE IF Head(match) = Ord_Bar
         THEN << cur >> \o Alternatives(Tail(match), << >>)
         ELSE Alternatives(Tail(match), Append(cur, Head(match)))

IsPrefix(p, s) == Len(p) <= Len(s) /\ SubSeq(s, 1, Len(p)) = p

\* the length of the match of the pattern at the start of s, 0 if none:
\* the first alternative that matches wins
RECURSIVE MatchLen(_, _)
MatchLen(alts, s) ==
    IF alts = << >> THEN 0
    ELSE IF Head(alts) # << >> /\ IsPrefix(Head(alts), s) THEN Len(Head(alts))
    ELSE MatchLen(Tail(alts), s)

\* re.sub(match, repl, data): leftmost non-overlapping matches replaced
RECURSIVE ReSubFrom(_, _, _)
ReSubFrom(alts, repl, s) ==
    IF s = << >> THEN << >>
    ELSE Bind(MatchLen(alts, s),
              LAMBDA n :
                IF n > 0
                THEN Bind(SubSeq(s, n + 1, Len(s)),
                          LAMBDA rest : repl \o ReSubFrom(alts, repl, rest))
                ELSE Bind(Tail(s),
                          LAMBDA rest : << Head(s) >> \o ReSubFrom(alts, repl, rest)))
re_sub(match, repl, data) == ReSubFrom(Alternatives(match, << >>), repl, data)

\* format_rx_nlsub(data, match) called with rxnl_state = state: the returned
\* string and the rxnl_state it leaves
format_rx_nlsub_nocarry(data, match, state) ==
    [data |-> re_sub(match, Console_Newline, state \o data), state |-> << >>]
format_rx_nlsub(data, match, state) ==
    Bind(re_sub(match, Console_Newline, state \o data),
         LAMBDA d :
           IF d[Len(d)] = match[1]
           THEN [data |-> SubSeq(d, 1, Len(d) - 1), state |-> << d[Len(d)] >>]
           ELSE [data |-> d, state |-> << >>])

----------------------------------------------------------------------------
(* The program's globals as the module sets them when it is loaded *)

Default_Format_Options ==
    [output_mode |-> "raw", input_mode |-> "raw",
     transmit_newline |-> "raw", receive_newline |-> "raw", echo |-> FALSE]

\* the empty mapping: Color_Chars = {}
No_Color_Chars == [b \in {} |-> 0]

GlobalsInit ==
    /\ Color_Chars = No_Color_Chars
    /\ txhex_state = << >>
    /\ rxnl_state = << >>
    /\ stdout_cursor_x = 0
    /\ stdout_split_bytes = << >>

\* no fd_read has returned yet
No_Read == [kind |-> "none", buff |-> << >>]

\* no process is running: the state of everything outside the transformers
NoProcess ==
    /\ options = << >>
    /\ opt_i = 0
    /\ has_device = FALSE
    /\ ready = {}
    /\ iter = 0
    /\ serial_tx = << >>
    /\ console = << >>
    /\ serial_offered = << >>
    /\ console_offered = << >>
    /\ last_read = [stdin |-> No_Read, serial |-> No_Read]
    /\ stdin_mode = "cooked"
    /\ serial_fd = "none"
    /\ cause = "none"
    /\ exit_code = -1

proc_vars == << options, opt_i, has_device, ready, iter, io_vars, tty_vars, cause,
                exit_code >>

----------------------------------------------------------------------------
(* fd_write and the formatted print *)

\* an ANSI escape sequence: "\x1b" and the text after it
Ord_Esc == 27
Esc(t) == << Ord_Esc >> \o Str(t)

\* Default color codes
Color_Codes ==
    << Esc(<< "[", "1", ";", "3", "0", ";", "4", "1", "m" >>),
       Esc(<< "[", "1", ";", "3", "0", ";", "4", "2", "m" >>),
       Esc(<< "[", "1", ";", "3", "0", ";", "4", "3", "m" >>),
       Esc(<< "[", "1", ";", "3", "7", ";", "4", "4", "m" >>),
       Esc(<< "[", "1", ";", "3", "7", ";", "4", "5", "m" >>),
       Esc(<< "[", "1", ";", "3", "0", ";", "4", "6", "m" >>),
       Esc(<< "[", "1", ";", "3", "0", ";", "4", "7", "m" >>) >>
Color_Code_Reset == Esc(<< "[", "0", "m" >>)

\* "%02x" % b
HexDigitChar(n) == IF n < 10 THEN 48 + n ELSE 97 + (n - 10)
Format02x(b) == << HexDigitChar(b \div 16), HexDigitChar(b % 16) >>

\* Number of columns in hexadecimal print mode
Hexadecimal_Columns == 16

\* fd_write(fd, data) is os.write(fd, data), whose count of written bytes
\* the callers do not read: the bytes that reach a descriptor taking accept
\* bytes of this call
fd_write(data, accept) ==
    IF accept < Len(data) THEN SubSeq(data, 1, accept) ELSE data

\* One call of fd_write a formatter makes: the text written (None when
\* building it raises IndexError instead), and the stdout_cursor_x and
\* stdout_split_bytes at the time of the call.
Call(text, cursor, window) == [text |-> text, x |-> cursor, bytes |-> window]

\* What the descriptor does with the calls made for one buffer: kind "none";
\* kind "error", call number at raises; kind "short", call number at takes
\* keep bytes only.
NoFault == [kind |-> "none", at |-> 0, keep |-> 0]

Minimum(S) == CHOOSE m \in S : \A y \in S : m <= y

\* The calls made in order until one raises:
\*   out      the bytes the descriptor took,
\*   offered  the bytes of the calls that returned,
\*   raised   a call raised an exception,
\*   stop     the number of the call that raised.
Perform(calls, fault) ==
    LET stops == {i \in 1..Len(calls) :
                     \/ calls[i].text = None
                     \/ (fault.kind = "error" /\ fault.at = i)}
        stop == IF stops = {} THEN Len(calls) + 1 ELSE Minimum(stops)
    IN  [out |-> Concat([i \in 1..(stop - 1) |->
                    fd_write(calls[i].text,
                             IF fault.kind = "short" /\ fault.at = i
                             THEN fault.keep ELSE Len(calls[i].text))]),
         offered |-> Concat([i \in 1..(stop - 1) |-> calls[i].text]),
         raised |-> stops # {},
         stop |-> stop]

\* the text written for character x with token as its rendering, colour coded
\* if x is in Color_Chars; Color_Codes[...] raises IndexError for a slot past
\* the end of the list
ColorCoded(cc, x, token) ==
    IF Cardinality(DOMAIN cc) > 0 /\ x \in DOMAIN cc
    THEN IF cc[x] < Len(Color_Codes)
         THEN Color_Codes[cc[x] + 1] \o token \o Color_Code_Reset
         ELSE None
    ELSE token

\* format_print_raw: the calls of fd_write it makes
format_print_raw(cc, data, cursor, window) ==
    IF Cardinality(DOMAIN cc) = 0 THEN << Call(data, cursor, window) >>
    ELSE [i \in 1..Len(data) |->
             Call(ColorCoded(cc, data[i], << data[i] >>), cursor, window)]

Spaces(n) == [i \in 1..n |-> 32]

\* one turn of format_print_hexadecimal's loop, entered with stdout_cursor_x =
\* cursor: the calls of fd_write and the stdout_cursor_x it leaves
HexadecimalStepNoWrap(cc, x, cursor, window, interpret_newlines) ==
    [calls |->
        << Call(ColorCoded(cc, x, Format02x(x)), cursor, window),
           Call(IF cursor + 1 = Hexadecimal_Columns \div 2 THEN Spaces(2)
                ELSE IF cursor + 1 = Hexadecimal_Columns THEN << Ord_LF >>
                ELSE Spaces(1), cursor + 1, window) >>
        \o (IF << x >> = Console_Newline /\ interpret_newlines
            THEN << Call(Console_Newline, cursor + 1, window) >> ELSE << >>),
     x |-> IF << x >> = Console_Newline /\ interpret_newlines THEN 0
           ELSE cursor + 1]
HexadecimalStepNoNewline(cc, x, cursor, window, interpret_newlines) ==
    [calls |->
        << Call(ColorCoded(cc, x, Format02x(x)), cursor, window),
           Call(IF cursor + 1 = Hexadecimal_Columns \div 2 THEN Spaces(2)
                ELSE IF cursor + 1 = Hexadecimal_Columns THEN << Ord_LF >>
                ELSE Spaces(1), cursor + 1, window) >>,
     x |-> IF cursor + 1 = Hexadecimal_Columns THEN 0 ELSE cursor + 1]
HexadecimalStep(cc, x, cursor, window, interpret_newlines) ==
    LET c1 == cursor + 1
        c2 == IF c1 = Hexadecimal_Columns THEN 0 ELSE c1
        nl == << x >> = Console_Newline /\ interpret_newlines
    IN  [calls |->
            << Call(ColorCoded(cc, x, Format02x(x)), cursor, window),
               Call(IF c1 = Hexadecimal_Columns \div 2 THEN Spaces(2)
                    ELSE IF c1 = Hexadecimal_Columns THEN << Ord_LF >>
                    ELSE Spaces(1), c1, window) >>
            \o (IF nl THEN << Call(Console_Newline, c2, window) >> ELSE << >>),
         x |-> IF nl THEN 0 ELSE c2]

RECURSIVE HexadecimalLoop(_, _, _, _, _, _)
HexadecimalLoop(cc, data, cursor, window, interpret_newlines, calls) ==
    IF data = << >> THEN [calls |-> calls, x |-> cursor, bytes |-> window]
    ELSE Bind(HexadecimalStep(cc, Head(data), cursor, window, interpret_newlines),
              LAMBDA s : HexadecimalLoop(cc, Tail(data), s.x, window,
                                         interpret_newlines, calls \o s.calls))

\* format_print_hexadecimal called with stdout_cursor_x = cursor: the calls of
\* fd_write it makes and the stdout_cursor_x it leaves
format_print_hexadecimal(cc, data, cursor, window, interpret_newlines) ==
    HexadecimalLoop(cc, data, cursor, window, interpret_newlines, << >>)

\* string.letters + string.digits + string.punctuation + ' '
IsPrintable(x) == x \in 32..126

\* split_print: the calls that print the hexadecimal representation
SplitPrintHex(cc, byte_list, cursor) ==
    Concat([i \in 1..Len(byte_list) |->
        << Call(ColorCoded(cc, byte_list[i], Format02x(byte_list[i])),
                cursor, byte_list),
           Call(IF i = Hexadecimal_Columns \div 2 THEN Spaces(2) ELSE Spaces(1),
                cursor, byte_list) >>])

\* split_print: the call that fills up the rest with blank space
SplitPrintFillNoSeparator(byte_list, cursor) ==
    IF Len(byte_list) < Hexadecimal_Columns
    THEN << Call(Spaces(3 * (Hexadecimal_Columns - Len(byte_list))),
                 cursor, byte_list) >>
    ELSE << >>
SplitPrintFill(byte_list, cursor) ==
    IF Len(byte_list) < Hexadecimal_Columns \div 2
    THEN << Call(Spaces(1) \o Spaces(3 * (Hexadecimal_Columns - Len(byte_list))),
                 cursor, byte_list) >>
    ELSE IF Len(byte_list) < Hexadecimal_Columns
    THEN << Call(Spaces(3 * (Hexadecimal_Columns - Len(byte_list))),
                 cursor, byte_list) >>
    ELSE << >>

\* split_print: the calls that print the ASCII representation
SplitPrintAscii(cc, byte_list, cursor) ==
    [i \in 1..Len(byte_list) |->
        Call(ColorCoded(cc, byte_list[i],
                        << IF IsPrintable(byte_list[i]) THEN byte_list[i]
                           ELSE Ord(".") >>),
             cursor, byte_list)]

\* split_print(byte_list): the calls of fd_write it makes
split_print(cc, byte_list, cursor) ==
    SplitPrintHex(cc, byte_list, cursor)
        \o SplitPrintFill(byte_list, cursor)
        \o << Call(Str(<< " ", "|" >>), cursor, byte_list) >>
        \o SplitPrintAscii(cc, byte_list, cursor)
        \o << Call(Str(<< "|" >>), cursor, byte_list) >>

\* format_print_split's loop over data, entered with stdout_split_bytes =
\* window: the calls of fd_write and the stdout_split_bytes it leaves
RECURSIVE SplitLoop(_, _, _, _, _)
SplitLoop(cc, data, cursor, window, calls) ==
    IF data = << >> THEN [calls |-> calls, x |-> cursor, bytes |-> window]
    ELSE Bind(Append(window, Head(data)),
              LAMBDA w :
                IF Len(w) = Hexadecimal_Columns
                THEN Bind(calls \o split_print(cc, w, cursor)
                                \o << Call(Console_Newline, cursor, w) >>,
                          LAMBDA c : SplitLoop(cc, Tail(data), cursor, << >>, c))
                ELSE SplitLoop(cc, Tail(data), cursor, w, calls))

\* format_print_split called with stdout_split_bytes = window: the calls of
\* fd_write it makes and the stdout_split_bytes it leaves
format_print_split_noerase(cc, data, cursor, window, partial_print) ==
    Bind(SplitLoop(cc, data, cursor, window, << >>),
         LAMBDA r :
           IF partial_print /\ Len(r.bytes) > 0
           THEN [r EXCEPT !.calls = @ \o split_print(cc, r.bytes, cursor)]
           ELSE r)
format_print_split_always(cc, data, cursor, window, partial_print) ==
    Bind(SplitLoop(cc, data, cursor, window,
                   IF Len(window) > 0
                   THEN << Call(<< Ord_CR >>, cursor, window) >> ELSE << >>),
         LAMBDA r :
           IF Len(r.bytes) > 0
           THEN [r EXCEPT !.calls = @ \o split_print(cc, r.bytes, cursor)]
           ELSE r)
format_print_split_never(cc, data, cursor, window, partial_print) ==
    SplitLoop(cc, data, cursor, window,
              IF partial_print /\ Len(window) > 0
              THEN << Call(<< Ord_CR >>, cursor, window) >> ELSE << >>)
format_print_split(cc, data, cursor, window, partial_print) ==
    Bind(SplitLoop(cc, data, cursor, window,
                   IF partial_print /\ Len(window) > 0
                   THEN << Call(<< Ord_CR >>, cursor, window) >> ELSE << >>),
         LAMBDA r :
           IF partial_print /\ Len(r.bytes) > 0
           THEN [r EXCEPT !.calls = @ \o split_print(cc, r.bytes, cursor)]
           ELSE r)

\* format_print(stdout_fd, buff) for the output mode, with Color_Chars = cc,
\* stdout_cursor_x = cursor and stdout_split_bytes = window: the calls of
\* fd_write it makes and the state it leaves if none raises
format_print(output_mode, cc, data, cursor, window) ==
    IF output_mode = "raw"
    THEN [calls |-> format_print_raw(cc, data, cursor, window),
          x |-> cursor, bytes |-> window]
    ELSE IF output_mode = "hex"
    THEN format_print_hexadecimal(cc, data, cursor, window, FALSE)
    ELSE IF output_mode = "hexnl"
    THEN format_print_hexadecimal(cc, data, cursor, window, TRUE)
    ELSE IF output_mode = "split"
    THEN format_print_split(cc, data, cursor, window, TRUE)
    ELSE format_print_split(cc, data, cursor, window, FALSE)

\* the formatter state left by the calls f of format_print performed as p:
\* the state at the call that raised, if one did
StateLeft(f, p) ==
    [x |-> IF p.raised THEN f.calls[p.stop].x ELSE f.x,
     bytes |-> IF p.raised THEN f.calls[p.stop].bytes ELSE f.bytes]

----------------------------------------------------------------------------
(* Command-line options *)

\* the spelling of the mode names on the command line
Spelling ==
    [raw |-> Str(<< "r", "a", "w" >>),
     split |-> Str(<< "s", "p", "l", "i", "t" >>),
     splitfull |-> Str(<< "s", "p", "l", "i", "t", "f", "u", "l", "l" >>),
     hex |-> Str(<< "h", "e", "x" >>),
     hexnl |-> Str(<< "h", "e", "x", "n", "l" >>),
     none |-> Str(<< "n", "o", "n", "e" >>),
     cr |-> Str(<< "c", "r" >>),
     lf |-> Str(<< "l", "f" >>),
     crlf |-> Str(<< "c", "r", "l", "f" >>),
     crorlf |-> Str(<< "c", "r", "o", "r", "l", "f" >>)]

\* opt_arg in names, and the name it spells
Spells(opt_arg, names) == \E n \in names : Spelling[n] = opt_arg
NameOf(opt_arg, names) == CHOOSE n \in names : Spelling[n] = opt_arg

Output_Modes == {"raw", "split", "splitfull", "hex", "hexnl"}
Input_Modes == {"raw", "hex"}

\* the options getopt.gnu_getopt accepts
Known_Options ==
    {"-b", "--baudrate", "-d", "--databits", "-p", "--parity", "-t",
     "--stopbits", "-f", "--flow-control", "-o", "--output", "-c", "--color",
     "--rx-nl", "-i", "--input", "--tx-nl", "-e", "--echo", "-h", "--help",
     "-v", "--version"}

\* opt_arg.split(",")
RECURSIVE SplitComma(_, _)
SplitComma(text, cur) ==
    IF text = << >> THEN << cur >>
    ELSE IF Head(text) = Ord_Comma
         THEN << cur >> \o SplitComma(Tail(text), << >>)
         ELSE SplitComma(Tail(text), Append(cur, Head(text)))

NonEmpty(c) == Len(c) >= 1

\* filter(lambda x: len(x) >= 1, opt_arg.split(","))
ColorList(opt_arg) == SelectSeq(SplitComma(opt_arg, << >>), NonEmpty)

\* int(c, 16) of "0x..." succeeds: hexadecimal digits follow the prefix
IsHexLiteral(c) ==
    /\ Len(c) > 2
    /\ \A i \in 3..Len(c) : c[i] \in string_hexdigits
RECURSIVE HexValue(_, _)
HexValue(digits, v) ==
    IF digits = << >> THEN v
    ELSE HexValue(Tail(digits), 16 * v + HexDigitValue(Head(digits)))
\* int(c, 10) succeeds
IsDecimal(c) == Len(c) >= 1 /\ \A i \in 1..Len(c) : c[i] \in 48..57

\* Color_Chars[key] = len(Color_Chars)
ColorAssign(cc, key) ==
    [b \in (DOMAIN cc) \cup {key} |->
        IF b = key THEN Cardinality(DOMAIN cc) ELSE cc[b]]

\* the loop over the colour list of one --color option: the Color_Chars it
\* leaves, and whether it ended in sys.exit(-1)
RECURSIVE ParseColorList(_, _)
ParseColorList(list, cc) ==
    IF list = << >> THEN [ok |-> TRUE, Color_Chars |-> cc]
    ELSE LET c == Head(list)
         IN  IF Len(c) = 1
             THEN ParseColorList(Tail(list), ColorAssign(cc, c[1]))
             ELSE IF Len(c) > 2 /\ SubSeq(c, 1, 2) = Str(<< "0", "x" >>)
             THEN IF IsHexLiteral(c)
                  THEN ParseColorList(Tail(list),
                           ColorAssign(cc, HexValue(SubSeq(c, 3, Len(c)), 0)))
                  ELSE [ok |-> FALSE, Color_Chars |-> cc]
             ELSE [ok |-> FALSE, Color_Chars |-> cc]

\* the check of the number of colour characters of one --color option
TooManyColors(list) == Len(list) > Len(Color_Codes)

\* one --color option: the Color_Chars it leaves and whether it exits
ParseColorOption(opt_arg, cc) ==
    LET list == ColorList(opt_arg)
    IN  IF TooManyColors(list) THEN [ok |-> FALSE, Color_Chars |-> cc]
        ELSE ParseColorList(list, cc)

\* sys.exit(n): the exit status of the process
ExitStatusClamped(n) == IF n < 0 THEN 0 ELSE n
ExitStatus(n) == n % 256

ExitAndGoOn(n) ==
    /\ pc' = "loop"
    /\ exit_code' = ExitStatus(n)
Exit(n) ==
    /\ pc' = "exited"
    /\ exit_code' = ExitStatus(n)

\* getopt.gnu_getopt: an option it does not know ends the program
Getopt ==
    /\ pc = "getopt"
    /\ IF \E i \in 1..Len(options) : options[i].opt \notin Known_Options
       THEN Exit(-1)
       ELSE pc' = "options" /\ UNCHANGED exit_code
    /\ UNCHANGED << cfg_vars, state_vars, io_vars, tty_vars, harness_vars,
                    ready, iter, cause >>

\* what one option does: "exit0", "exit1" (sys.exit(-1)) or "next"
OptionOutcome(o) ==
    LET opt_c == o.opt
        opt_arg == o.arg
    IN  IF opt_c \in {"-b", "--baudrate", "-d", "--databits", "-t", "--stopbits"}
        THEN IF IsDecimal(opt_arg) THEN "next" ELSE "exit1"
        ELSE IF opt_c \in {"-o", "--output"}
        THEN IF Spells(opt_arg, Output_Modes) THEN "next" ELSE "exit1"
        ELSE IF opt_c = "--tx-nl"
        THEN IF Spells(opt_arg, DOMAIN TX_Newline_Sub) THEN "next" ELSE "exit1"
        ELSE IF opt_c \in {"-c", "--color"}
        THEN IF ParseColorOption(opt_arg, Color_Chars).ok THEN "next" ELSE "exit1"
        ELSE IF opt_c \in {"-i", "--input"}
        THEN IF Spells(opt_arg, Input_Modes) THEN "next" ELSE "exit1"
        ELSE IF opt_c = "--rx-nl"
        THEN IF Spells(opt_arg, DOMAIN RX_Newline_Sub) THEN "next" ELSE "exit1"
        ELSE IF opt_c \in {"-h", "--help", "-v", "--version"} THEN "exit0"
        ELSE "next"

\* the Format_Options one option leaves
OptionFormat(o, fo) ==
    LET opt_c == o.opt
        opt_arg == o.arg
    IN  IF opt_c \in {"-o", "--output"}
        THEN [fo EXCEPT !.output_mode = NameOf(opt_arg, Output_Modes)]
        ELSE IF opt_c = "--tx-nl"
        THEN [fo EXCEPT !.transmit_newline = NameOf(opt_arg, DOMAIN TX_Newline_Sub)]
        ELSE IF opt_c \in {"-i", "--input"}
        THEN [fo EXCEPT !.input_mode = NameOf(opt_arg, Input_Modes)]
        ELSE IF opt_c = "--rx-nl"
        THEN [fo EXCEPT !.receive_newline = NameOf(opt_arg, DOMAIN RX_Newline_Sub)]
        ELSE IF opt_c \in {"-e", "--echo"}
        THEN [fo EXCEPT !.echo = TRUE]
        ELSE fo

\* one turn of the loop over the options
ParseOption ==
    /\ pc = "options"
    /\ opt_i < Len(options)
    /\ LET o == options[opt_i + 1]
           outcome == OptionOutcome(o)
       IN  IF outcome = "next"
           THEN /\ Format_Options' = OptionFormat(o, Format_Options)
                /\ Color_Chars' =
                      IF o.opt \in {"-c", "--color"}
                      THEN ParseColorOption(o.arg, Color_Chars).Color_Chars
                      ELSE Color_Chars
                /\ opt_i' = opt_i + 1
                /\ UNCHANGED << pc, exit_code >>
           ELSE /\ Exit(IF outcome = "exit0" THEN 0 ELSE -1)
                /\ UNCHANGED << opt_i, Format_Options, Color_Chars >>
    /\ UNCHANGED << options, has_device, state_vars, io_vars, tty_vars, harness_vars,
                    ready, iter, cause >>

\* Make sure a serial port device is specified
CheckDevice ==
    /\ pc = "options"
    /\ opt_i = Len(options)
    /\ IF has_device THEN pc' = "serial_open" /\ UNCHANGED exit_code
       ELSE Exit(-1)
    /\ UNCHANGED << cfg_vars, state_vars, io_vars, tty_vars, harness_vars,
                    ready, iter, cause >>

----------------------------------------------------------------------------
(* Opening the descriptors *)

\* serial_open: it returns the descriptor or raises
SerialOpen ==
    /\ pc = "serial_open"
    /\ \E ok \in BOOLEAN :
         IF ok THEN /\ serial_fd' = "open"
                    /\ pc' = "stdin_raw_open"
                    /\ UNCHANGED exit_code
         ELSE /\ Exit(-1)
              /\ UNCHANGED serial_fd
    /\ UNCHANGED << cfg_vars, state_vars, io_vars, stdin_mode, harness_vars,
                    ready, iter, cause >>

\* stdin_raw_open: stdin is put in raw mode, or it raises
StdinRawOpen ==
    /\ pc = "stdin_raw_open"
    /\ \E ok \in BOOLEAN :
         IF ok THEN /\ stdin_mode' = "raw"
                    /\ pc' = "stdout_raw_open"
                    /\ UNCHANGED exit_code
         ELSE /\ Exit(-1)
              /\ UNCHANGED stdin_mode
    /\ UNCHANGED << cfg_vars, state_vars, io_vars, serial_fd, harness_vars,
                    ready, iter, cause >>

\* stdout_raw_open: stdout is re-opened unbuffered, or it raises
StdoutRawOpen ==
    /\ pc = "stdout_raw_open"
    /\ \E ok \in BOOLEAN :
         IF ok THEN pc' = "loop" /\ UNCHANGED exit_code
         ELSE Exit(-1)
    /\ UNCHANGED << cfg_vars, state_vars, io_vars, tty_vars, harness_vars,
                    ready, iter, cause >>

----------------------------------------------------------------------------
(* Main Read/Write Loop *)

\* Quit Escape Character, Ctrl-] = 0x1D
Quit_Escape_Character == 29

\* Read buffer size
READ_BUFF_SIZE == 4096

Contains(buff, x) == \E i \in 1..Len(buff) : buff[i] = x

\* chr(Quit_Escape_Character) in buff
HasEscapeAtEnd(buff) == buff[Len(buff)] = Quit_Escape_Character
HasEscapeOrItsDigits(buff) ==
    \/ Contains(buff, Quit_Escape_Character)
    \/ buff = << Ord("1"), Ord("d") >>
HasEscapeAtStart(buff) == buff[1] = Quit_Escape_Character
HasEscape(buff) == Contains(buff, Quit_Escape_Character)

\* what fd_read returns on stdin: "4", "1\n", "1d", "a\x1db", "\x1d"
Stdin_Chunks ==
    { << Ord("4") >>, << Ord("1"), Ord_LF >>, << Ord("1"), Ord("d") >>,
      << Ord("a"), Quit_Escape_Character, Ord("b") >>,
      << Quit_Escape_Character >> }
\* what fd_read returns on the serial port: "a", "\r", "\nh", "\x1d"
Serial_Chunks ==
    { << Ord("a") >>, << Ord_CR >>, << Ord_LF, Ord("h") >>,
      << Quit_Escape_Character >> }

\* the results of fd_read(fd, READ_BUFF_SIZE): an exception, no byte, or a
\* buffer of at most READ_BUFF_SIZE bytes
ReadResults(bufs) ==
    {[kind |-> "error", buff |-> << >>], [kind |-> "data", buff |-> << >>]}
        \cup {[kind |-> "data", buff |-> b] :
                 b \in {c \in bufs : Len(c) <= READ_BUFF_SIZE}}

\* what a descriptor may do with a write of n calls: accept all, raise at
\* the first or at the last call, or accept only the first keep bytes of the
\* first or of the last call
WriteFaults(n, keeps) ==
    {NoFault}
        \cup {[kind |-> "error", at |-> j, keep |-> 0] : j \in {1, n} \cap (1..n)}
        \cup {[kind |-> "short", at |-> j, keep |-> m] :
                 j \in {1, n} \cap (1..n), m \in keeps}

\* select.select(read_fds, [], []) returns the descriptors that are ready
Select ==
    /\ pc = "loop"
    /\ ready = {}
    /\ iter < MaxIter
    /\ ready' \in {{"stdin"}, {"serial"}, {"stdin", "serial"}}
    /\ iter' = iter + 1
    /\ UNCHANGED << pc, cfg_vars, state_vars, io_vars, tty_vars, harness_vars,
                    cause, exit_code >>

\* select.select raises (a signal interrupts it): the exception reaches the
\* handler of the main program
SelectError ==
    /\ pc = "loop"
    /\ ready = {}
    /\ cause' = "select_error"
    /\ Exit(-1)
    /\ UNCHANGED << cfg_vars, state_vars, io_vars, tty_vars, harness_vars,
                    ready, iter >>

\* the transmit chain of one buffer: newline substitution, then hexadecimal
\* interpretation; the buffer to write and the txhex_state left
TransmitChainHexFirst(buff, fo, state) ==
    LET txnl_sub == TX_Newline_Sub[fo.transmit_newline]
        h == IF fo.input_mode = "hex" THEN format_tx_hex(buff, state)
             ELSE [data |-> buff, state |-> state]
    IN  [data |-> IF txnl_sub # None THEN format_tx_nlsub(h.data, txnl_sub)
                  ELSE h.data,
         state |-> h.state]
TransmitChain(buff, fo, state) ==
    LET txnl_sub == TX_Newline_Sub[fo.transmit_newline]
        b1 == IF txnl_sub # None THEN format_tx_nlsub(buff, txnl_sub) ELSE buff
    IN  IF fo.input_mode = "hex" THEN format_tx_hex(b1, state)
        ELSE [data |-> b1, state |-> state]

\* the handling of stdin when select reported it
StdinReadyResettingReceive ==
    /\ pc = "loop"
    /\ "stdin" \in ready
    /\ \E res \in ReadResults(Stdin_Chunks) :
         IF res.kind = "error"
         THEN /\ last_read' = [last_read EXCEPT !.stdin = res]
              /\ cause' = "stdin_read_error"
              /\ Exit(-1)
              /\ UNCHANGED << ready, txhex_state, serial_tx, serial_offered >>
         ELSE IF res.buff = << >>
         THEN /\ last_read' = [last_read EXCEPT !.stdin = res]
              /\ ready' = ready \ {"stdin"}
              /\ UNCHANGED << pc, exit_code, cause, txhex_state, serial_tx,
                              serial_offered >>
         ELSE IF HasEscape(res.buff)
         THEN /\ last_read' = [last_read EXCEPT !.stdin = res]
              /\ cause' = "escape"
              /\ pc' = "print"
              /\ UNCHANGED << exit_code, ready, txhex_state, serial_tx,
                              serial_offered >>
         ELSE \E t \in {TransmitChain(res.buff, Format_Options, txhex_state)} :
                \E fault \in WriteFaults(1, 1..(Len(t.data) - 1)) :
                  \E k \in {Perform(<< Call(t.data, 0, << >>) >>, fault)} :
                        /\ last_read' = [last_read EXCEPT !.stdin = res]
                        /\ txhex_state' = t.state
                        /\ serial_tx' = serial_tx \o k.out
                        /\ serial_offered' = serial_offered \o k.offered
                        /\ IF k.raised
                           THEN /\ cause' = "serial_write_error"
                                /\ Exit(-1)
                                /\ UNCHANGED ready
                           ELSE /\ ready' = ready \ {"stdin"}
                                /\ UNCHANGED << pc, exit_code, cause >>
    /\ rxnl_state' = << >>
    /\ UNCHANGED << cfg_vars, stdout_cursor_x, stdout_split_bytes,
                    console, console_offered, tty_vars, harness_vars, iter >>
StdinReady ==
    /\ pc = "loop"
    /\ "stdin" \in ready
    /\ \E res \in ReadResults(Stdin_Chunks) :
         IF res.kind = "error"
         THEN /\ last_read' = [last_read EXCEPT !.stdin = res]
              /\ cause' = "stdin_read_error"
              /\ Exit(-1)
              /\ UNCHANGED << ready, txhex_state, serial_tx, serial_offered >>
         ELSE IF res.buff = << >>
         THEN /\ last_read' = [last_read EXCEPT !.stdin = res]
              /\ ready' = ready \ {"stdin"}
              /\ UNCHANGED << pc, exit_code, cause, txhex_state, serial_tx,
                              serial_offered >>
         ELSE IF HasEscape(res.buff)
         THEN /\ last_read' = [last_read EXCEPT !.stdin = res]
              /\ cause' = "escape"
              /\ pc' = "print"
              /\ UNCHANGED << exit_code, ready, txhex_state, serial_tx,
                              serial_offered >>
         ELSE \E t \in {TransmitChain(res.buff, Format_Options, txhex_state)} :
                \E fault \in WriteFaults(1, 1..(Len(t.data) - 1)) :
                  \E k \in {Perform(<< Call(t.data, 0, << >>) >>, fault)} :
                        /\ last_read' = [last_read EXCEPT !.stdin = res]
                        /\ txhex_state' = t.state
                        /\ serial_tx' = serial_tx \o k.out
                        /\ serial_offered' = serial_offered \o k.offered
                        /\ IF k.raised
                           THEN /\ cause' = "serial_write_error"
                                /\ Exit(-1)
                                /\ UNCHANGED ready
                           ELSE /\ ready' = ready \ {"stdin"}
                                /\ UNCHANGED << pc, exit_code, cause >>
    /\ UNCHANGED << cfg_vars, rxnl_state, stdout_cursor_x, stdout_split_bytes,
                    console, console_offered, tty_vars, harness_vars, iter >>

\* the receive chain of one buffer: newline substitution; the buffer to print
\* and the rxnl_state left
ReceiveChain(buff, fo, state) ==
    LET rxnl_sub == RX_Newline_Sub[fo.receive_newline]
    IN  IF rxnl_sub # None THEN format_rx_nlsub(buff, rxnl_sub, state)
        ELSE [data |-> buff, state |-> state]

\* the handling of the serial port when select reported it
SerialReady ==
    /\ pc = "loop"
    /\ "serial" \in ready
    /\ "stdin" \notin ready
    /\ \E res \in ReadResults(Serial_Chunks) :
         IF res.kind = "error"
         THEN /\ last_read' = [last_read EXCEPT !.serial = res]
              /\ cause' = "serial_read_error"
              /\ Exit(-1)
              /\ UNCHANGED << ready, rxnl_state, stdout_cursor_x,
                              stdout_split_bytes, console, console_offered >>
         ELSE IF res.buff = << >>
         THEN /\ last_read' = [last_read EXCEPT !.serial = res]
              /\ ready' = ready \ {"serial"}
              /\ UNCHANGED << pc, exit_code, cause, rxnl_state, stdout_cursor_x,
                              stdout_split_bytes, console, console_offered >>
         ELSE \E t \in {ReceiveChain(res.buff, Format_Options, rxnl_state)} :
                \E f \in {format_print(Format_Options.output_mode, Color_Chars,
                                       t.data, stdout_cursor_x,
                                       stdout_split_bytes)} :
                  \E fault \in WriteFaults(Len(f.calls), {1}) :
                    \E r \in {Perform(f.calls, fault)} :
                        /\ last_read' = [last_read EXCEPT !.serial = res]
                        /\ rxnl_state' = t.state
                        /\ stdout_cursor_x' = StateLeft(f, r).x
                        /\ stdout_split_bytes' = StateLeft(f, r).bytes
                        /\ console' = console \o r.out
                        /\ console_offered' = console_offered \o r.offered
                        /\ IF r.raised
                           THEN /\ cause' = "stdout_write_error"
                                /\ Exit(-1)
                                /\ UNCHANGED ready
                           ELSE /\ ready' = ready \ {"serial"}
                                /\ UNCHANGED << pc, exit_code, cause >>
    /\ UNCHANGED << cfg_vars, txhex_state, serial_tx, serial_offered, tty_vars,
                    harness_vars, iter >>

----------------------------------------------------------------------------
(* After the loop *)

\* print "": a newline on stdout; an exception here is not caught
PrintNewlineFlushing ==
    /\ pc = "print"
    /\ console' = console \o stdout_split_bytes \o rxnl_state \o Console_Newline
    /\ console_offered' =
          console_offered \o stdout_split_bytes \o rxnl_state \o Console_Newline
    /\ pc' = "stdin_reset"
    /\ UNCHANGED << cfg_vars, state_vars, serial_tx, serial_offered, last_read,
                    tty_vars, harness_vars, ready, iter, cause, exit_code >>
PrintNewline ==
    /\ pc = "print"
    /\ \E ok \in BOOLEAN :
         IF ok THEN /\ console' = console \o Console_Newline
                    /\ console_offered' = console_offered \o Console_Newline
                    /\ pc' = "stdin_reset"
                    /\ UNCHANGED exit_code
         ELSE /\ Exit(1)
              /\ UNCHANGED << console, console_offered >>
    /\ UNCHANGED << cfg_vars, state_vars, serial_tx, serial_offered, last_read,
                    tty_vars, harness_vars, ready, iter, cause >>

\* Reset our console to buffered mode
StdinReset ==
    /\ pc = "stdin_reset"
    /\ \E ok \in BOOLEAN :
         IF ok THEN /\ stdin_mode' = "cooked"
                    /\ pc' = "serial_close"
                    /\ UNCHANGED exit_code
         ELSE /\ Exit(-1)
              /\ UNCHANGED stdin_mode
    /\ UNCHANGED << cfg_vars, state_vars, io_vars, serial_fd, harness_vars,
                    ready, iter, cause >>

\* Close the serial port; the program then ends
SerialClose ==
    /\ pc = "serial_close"
    /\ \E ok \in BOOLEAN :
         IF ok THEN /\ serial_fd' = "closed"
                    /\ Exit(0)
         ELSE /\ Exit(-1)
              /\ UNCHANGED serial_fd
    /\ UNCHANGED << cfg_vars, state_vars, io_vars, stdin_mode, harness_vars,
                    ready, iter, cause >>

----------------------------------------------------------------------------
(* The program *)

Opt(opt_c, opt_arg) == [opt |-> opt_c, arg |-> opt_arg]

\* the command lines the program is started with: the options in order, and
\* whether a serial port device follows
Command_Lines ==
    { [opts |-> << >>, device |-> TRUE],
      [opts |-> << >>, device |-> FALSE],
      [opts |-> << Opt("-o", Spelling.hex), Opt("-i", Spelling.hex),
                   Opt("--tx-nl", Spelling.none) >>, device |-> TRUE],
      [opts |-> << Opt("-o", Spelling.split), Opt("--rx-nl", Spelling.crlf),
                   Opt("-c", Str(<< "a", ",", "0", "x", "0", "a" >>)) >>,
       device |-> TRUE],
      [opts |-> << Opt("--output", Spelling.hexnl), Opt("--rx-nl", Spelling.crorlf),
                   Opt("-e", << >>) >>, device |-> TRUE],
      [opts |-> << Opt("-o", Spelling.splitfull), Opt("--tx-nl", Spelling.crlf),
                   Opt("-b", Str(<< "9", "6", "0", "0" >>)) >>, device |-> TRUE],
      [opts |-> << Opt("-c", Str(<< "a", ",", "b", ",", "c", ",", "d" >>)),
                   Opt("-c", Str(<< "e", ",", "f", ",", "g", ",", "h" >>)) >>,
       device |-> TRUE],
      [opts |-> << Opt("-c", Str(<< "a", ",", "b", ",", "c", ",", "d", ",",
                                    "e", ",", "f", ",", "g", ",", "h" >>)) >>,
       device |-> TRUE],
      [opts |-> << Opt("--color", Str(<< "a", ",", ",", "b", ",", "a" >>)),
                   Opt("-i", Spelling.hex) >>, device |-> TRUE],
      [opts |-> << Opt("-c", Str(<< "a", "b" >>)) >>, device |-> TRUE],
      [opts |-> << Opt("-c", Str(<< "0", "x", "z", "z" >>)) >>, device |-> TRUE],
      [opts |-> << Opt("-o", Spelling.none) >>, device |-> TRUE],
      [opts |-> << Opt("-i", Spelling.split) >>, device |-> TRUE],
      [opts |-> << Opt("--tx-nl", Spelling.crorlf) >>, device |-> TRUE],
      [opts |-> << Opt("--rx-nl", Spelling.none) >>, device |-> TRUE],
      [opts |-> << Opt("-d", Str(<< "x" >>)) >>, device |-> TRUE],
      [opts |-> << Opt("-o", Spelling.hex), Opt("-h", << >>) >>, device |-> FALSE],
      [opts |-> << Opt("-z", << >>) >>, device |-> TRUE] }

Init ==
    /\ pc = "getopt"
    /\ \E cl \in Command_Lines :
         /\ options = cl.opts
         /\ has_device = cl.device
    /\ opt_i = 0
    /\ Format_Options = Default_Format_Options
    /\ GlobalsInit
    /\ ready = {}
    /\ iter = 0
    /\ serial_tx = << >>
    /\ serial_offered = << >>
    /\ console = << >>
    /\ console_offered = << >>
    /\ last_read = [stdin |-> No_Read, serial |-> No_Read]
    /\ stdin_mode = "cooked"
    /\ serial_fd = "none"
    /\ cause = "none"
    /\ exit_code = -1
    /\ stream = << >>
    /\ chunks = << >>
    /\ acc = << >>

Next ==
    \/ Getopt
    \/ ParseOption
    \/ CheckDevice
    \/ SerialOpen
    \/ StdinRawOpen
    \/ StdoutRawOpen
    \/ Select
    \/ SelectError
    \/ StdinReady
    \/ SerialReady
    \/ PrintNewline
    \/ StdinReset
    \/ SerialClose

Spec == Init /\ [][Next]_vars

----------------------------------------------------------------------------
(* Harness: a transformer fed a stream chunk by chunk *)

SeqsUpTo(S, n) == UNION {[1..k -> S] : k \in 0..n}

Fed == Len(Concat(chunks))
Rest == SubSeq(stream, Fed + 1, Len(stream))
AllFed == Fed = Len(stream)

\* the received characters the streams are drawn over: "\r", "\n", "a"
RxAlphabet == {Ord_CR, Ord_LF, Ord("a")}
RxModes == {"cr", "lf", "crlf", "crorlf"}

RxInit ==
    /\ pc = "rx"
    /\ GlobalsInit
    /\ NoProcess
    /\ \E m \in RxModes :
         Format_Options = [Default_Format_Options EXCEPT !.receive_newline = m]
    /\ stream \in SeqsUpTo(RxAlphabet, MaxStream) \ {<< >>}
    /\ chunks = << >>
    /\ acc = << >>

\* one call of format_rx_nlsub on the next n characters of the stream
RxFeed ==
    /\ pc = "rx"
    /\ \E n \in 1..Len(Rest) :
         LET buff == SubSeq(Rest, 1, n)
             r == format_rx_nlsub(buff, RX_Newline_Sub[Format_Options.receive_newline],
                                  rxnl_state)
         IN  /\ rxnl_state' = r.state
             /\ acc' = acc \o r.data
             /\ chunks' = Append(chunks, buff)
    /\ UNCHANGED << pc, Format_Options, Color_Chars, txhex_state, stdout_cursor_x,
                    stdout_split_bytes, stream, proc_vars >>

SpecRxNl == RxInit /\ [][RxFeed]_vars

\* two lowercase hexadecimal digits per byte, no separators
HexEncode(B) == Concat([i \in 1..Len(B) |-> Format02x(B[i])])

\* the console characters the streams are drawn over
HexAlphabet == {Ord("4"), Ord("1"), Ord("a"), Ord("F"), Ord(" "), Ord("g")}
\* the byte values the round trip is drawn over
ByteSample == {0, 10, 29, 65, 175, 255}
ByteSeqs == SeqsUpTo(ByteSample, MaxBytes)
Scenario_Hex_Input == Str(<< "4", "1", " ", "4", "2", "\n", "4", "3" >>)

TxHexInit ==
    /\ pc = "txhex"
    /\ GlobalsInit
    /\ NoProcess
    /\ Format_Options = [Default_Format_Options EXCEPT !.input_mode = "hex"]
    /\ stream \in (SeqsUpTo(HexAlphabet, MaxStream) \ {<< >>})
                    \cup {HexEncode(B) : B \in ByteSeqs \ {<< >>}}
                    \cup {Scenario_Hex_Input}
    /\ chunks = << >>
    /\ acc = << >>

\* one call of format_tx_hex on the next n characters of the stream
TxHexFeed ==
    /\ pc = "txhex"
    /\ \E n \in 1..Len(Rest) :
         LET buff == SubSeq(Rest, 1, n)
             r == format_tx_hex(buff, txhex_state)
         IN  /\ txhex_state' = r.state
             /\ acc' = acc \o r.data
             /\ chunks' = Append(chunks, buff)
    /\ UNCHANGED << pc, Format_Options, Color_Chars, rxnl_state, stdout_cursor_x,
                    stdout_split_bytes, stream, proc_vars >>

SpecTxHex == TxHexInit /\ [][TxHexFeed]_vars

----------------------------------------------------------------------------
(* Claims about the transformers *)

\* C1: receive-newline boundary invariance: in every receive mode, feeding
\* the chunks of any partition of a stream to format_rx_nlsub in order, from
\* an empty carry, and concatenating the returned strings gives the string
\* one call on the whole stream returns.
C1_RxBoundaryInvariance ==
    (pc = "rx" /\ AllFed) =>
        acc = format_rx_nlsub(stream, RX_Newline_Sub[Format_Options.receive_newline],
                              << >>).data

\* a "\r\n" split between two chunks in crlf mode has become one newline
C1_Witness ==
    /\ pc = "rx" /\ AllFed
    /\ Format_Options.receive_newline = "crlf"
    /\ chunks = << << Ord("a"), Ord_CR >>, << Ord_LF, Ord("a") >> >>
    /\ acc = << Ord("a"), Ord_LF, Ord("a") >>

\* C2: hex-decode boundary invariance: feeding the chunks of any partition
\* of a stream to format_tx_hex in order, from an empty accumulator, and
\* concatenating the returned strings gives what one call on the whole stream
\* returns; an odd digit ending a chunk pairs with the next chunk's first.
C2_HexBoundaryInvariance ==
    (pc = "txhex" /\ AllFed) => acc = format_tx_hex(stream, << >>).data

\* "4" and "1" arrived in two chunks and made the byte 0x41
C2_Witness ==
    /\ pc = "txhex" /\ AllFed
    /\ chunks = << << Ord("4") >>, << Ord("1") >> >>
    /\ acc = << 65 >>

\* C3: hex round trip: from an empty accumulator, format_tx_hex applied to
\* the two-lowercase-digits-per-byte encoding of a byte sequence B returns B
\* and leaves the accumulator empty.
C3_HexRoundTrip ==
    \A B \in ByteSeqs :
        (pc = "txhex" /\ AllFed /\ stream = HexEncode(B)) =>
            (acc = B /\ txhex_state = << >>)

\* the encoding "af1d" of the bytes 0xaf 0x1d went through one call
C3_Witness ==
    /\ pc = "txhex" /\ AllFed
    /\ stream = HexEncode(<< 175, 29 >>)
    /\ chunks = << stream >>
    /\ acc = << 175, 29 >>

\* the length of the longest prefix of s made of hexadecimal digits
RECURSIVE HexRunLen(_)
HexRunLen(s) ==
    IF s = << >> \/ Head(s) \notin string_hexdigits THEN 0
    ELSE 1 + HexRunLen(Tail(s))

\* the values of the successive digit pairs of a run of hexadecimal digits
RunPairs(run) ==
    [i \in 1..(Len(run) \div 2) |->
        16 * HexDigitValue(run[2 * i - 1]) + HexDigitValue(run[2 * i])]

\* the reference decoding: the digit pairs of every maximal run of
\* hexadecimal digits, left to right
RECURSIVE RefHexDecode(_)
RefHexDecode(s) ==
    IF s = << >> THEN << >>
    ELSE LET n == HexRunLen(s)
         IN  IF n = 0 THEN RefHexDecode(Tail(s))
             ELSE RunPairs(SubSeq(s, 1, n)) \o RefHexDecode(SubSeq(s, n + 1, Len(s)))

\* C4: hex-decode reference semantics: what format_tx_hex has emitted over
\* the characters fed so far is, for each maximal run of hexadecimal digits
\* taken left to right, the values of its successive digit pairs, most
\* significant digit first; the odd last digit of a run followed by another
\* character is dropped, and no other character reaches the output.
C4_HexReferenceSemantics ==
    pc = "txhex" => acc = RefHexDecode(Concat(chunks))

\* "41 42\n43" has been decoded to 0x41 0x42 0x43
C4_Witness ==
    /\ pc = "txhex" /\ AllFed
    /\ stream = Scenario_Hex_Input
    /\ acc = << 65, 66, 67 >>

----------------------------------------------------------------------------
(* Claims about the relay loop and the main program *)

\* the last buffer read from stdin holds the quit escape character
EscapeRead ==
    /\ last_read.stdin.kind = "data"
    /\ Contains(last_read.stdin.buff, Quit_Escape_Character)

LoopCauses ==
    {"escape", "stdin_read_error", "serial_read_error", "serial_write_error",
     "stdout_write_error"}

\* C5: escape termination: once a buffer read from stdin holds the quit
\* escape character at any position, the loop has stopped with that buffer
\* (no further select, no further handling of a descriptor), and nothing is
\* written to the serial port from then on, so no byte that follows the
\* escape character in the buffer reaches it.
C5_EscapeTermination ==
    [][EscapeRead' =>
          /\ pc' \in {"print", "stdin_reset", "serial_close", "exited"}
          /\ cause' = "escape"
          /\ iter' = iter
          /\ serial_tx' = serial_tx
          /\ serial_offered' = serial_offered]_vars

\* "a\x1db" was read after "4" had been relayed: the loop has left, "b" was
\* not written
C5_Witness ==
    /\ last_read.stdin.buff = << Ord("a"), Quit_Escape_Character, Ord("b") >>
    /\ pc = "print"
    /\ serial_tx = << Ord("4") >>

\* C6: a zero-length result of fd_read on stdin or on the serial port is a
\* fatal read failure: the loop is left with an error and goes on no more.
C6_ZeroLengthReadIsFatal ==
    \A fd \in {"stdin", "serial"} :
        (last_read[fd].kind = "data" /\ last_read[fd].buff = << >>) =>
            (pc = "exited" /\ exit_code # 0
               /\ cause \in {"stdin_read_error", "serial_read_error"})

\* C7: full-write discipline: when a write takes fewer bytes than offered
\* and raises nothing, the rest is written by further calls, so that every
\* byte of the buffer has reached the descriptor when the loop goes on.
C7_FullWrite ==
    pc = "loop" => (serial_tx = serial_offered /\ console = console_offered)

\* C8: unconditional release: however the loop is left once the session has
\* started (escape, or a read or write error on either side), stdin is back in
\* its cooked mode and the serial descriptor is closed when the process ends.
C8_UnconditionalRelease ==
    (pc = "exited" /\ cause \in LoopCauses) =>
        (stdin_mode = "cooked" /\ serial_fd = "closed")

\* C9: exit codes: the process ends with status 0 when the loop was left by
\* the escape character and the cleanup succeeded, and with a non-zero status
\* whenever the loop was left by a read or write failure on a descriptor.
C9_ExitCodes ==
    pc = "exited" =>
        /\ (cause = "escape" /\ stdin_mode = "cooked" /\ serial_fd = "closed")
              => exit_code = 0
        /\ cause \in (LoopCauses \ {"escape"}) => exit_code # 0

\* the process has ended after a write error on the serial port
C9_Witness ==
    /\ pc = "exited"
    /\ cause = "serial_write_error"
    /\ exit_code = 255
    /\ serial_offered = << >>

\* the colour characters one --color list asks for
ColorKeys(list) ==
    {list[i][1] : i \in {j \in 1..Len(list) : Len(list[j]) = 1}}
        \cup {HexValue(SubSeq(list[i], 3, Len(list[i])), 0) :
                 i \in {j \in 1..Len(list) :
                          /\ Len(list[j]) > 2
                          /\ SubSeq(list[j], 1, 2) = Str(<< "0", "x" >>)
                          /\ IsHexLiteral(list[j])}}

\* the distinct colour characters the command line asks for
RequestedColors ==
    UNION {ColorKeys(ColorList(options[i].arg)) :
             i \in {j \in 1..Len(options) : options[j].opt \in {"-c", "--color"}}}

\* C10: colour mapping bound: a command line that asks for more than 7
\* distinct colour characters in all ends in a configuration error (non-zero
\* exit status) while the options are parsed, and the loop never starts.
C10_ColorMappingBound ==
    Cardinality(RequestedColors) > Len(Color_Codes) =>
        \/ pc \in {"getopt", "options"}
        \/ (pc = "exited" /\ exit_code # 0 /\ cause = "none" /\ serial_fd = "none")

\* the colour character one entry of a --color list names
ColorKey(c) ==
    IF Len(c) = 1 THEN c[1] ELSE HexValue(SubSeq(c, 3, Len(c)), 0)

\* the colour characters the command line asks for, in the order of the
\* options and of the entries of each list
RequestedSeq ==
    Concat([i \in 1..Len(options) |->
              IF options[i].opt \in {"-c", "--color"}
              THEN [j \in 1..Len(ColorList(options[i].arg)) |->
                       ColorKey(ColorList(options[i].arg)[j])]
              ELSE << >>])

\* the distinct elements of a sequence in the order of their first occurrence
RECURSIVE FirstSeen(_, _)
FirstSeen(seq, seen) ==
    IF seq = << >> THEN << >>
    ELSE IF Head(seq) \in seen THEN FirstSeen(Tail(seq), seen)
    ELSE << Head(seq) >> \o FirstSeen(Tail(seq), seen \cup {Head(seq)})

\* C11: colour-slot invariant: while the loop runs, the k-th distinct colour
\* character requested holds slot k-1 of Color_Chars (so distinct characters
\* hold distinct slots), and every slot is an index of the 7 Color_Codes.
C11_ColorSlotInvariant ==
    pc = "loop" =>
        \A k \in 1..Len(FirstSeen(RequestedSeq, {})) :
            /\ FirstSeen(RequestedSeq, {})[k] \in DOMAIN Color_Chars
            /\ Color_Chars[FirstSeen(RequestedSeq, {})[k]] = k - 1
            /\ Color_Chars[FirstSeen(RequestedSeq, {})[k]] < Len(Color_Codes)

----------------------------------------------------------------------------
(* Harness: a formatted print fed a stream chunk by chunk *)

\* the number of full rows of the streams printed
MaxRows == 2

Print_Modes == {"hex", "hexnl", "split", "splitfull"}

PrintLen == Hexadecimal_Columns * MaxRows + 1

\* the received streams printed: letters; newlines at the 3rd, 8th and 16th
\* byte of every 16 among "a"; a newline as every 16th byte among "b"; bytes
\* of every kind, "\r" and "\n" among them
Print_Streams ==
    { [i \in 1..PrintLen |-> Ord("A") + (i % 26)],
      [i \in 1..PrintLen |->
          IF i % Hexadecimal_Columns = 0 THEN Ord_LF ELSE Ord("b")],
      [i \in 1..PrintLen |->
          IF i % Hexadecimal_Columns \in {3, 8, 0} THEN Ord_LF ELSE Ord("a")],
      [i \in 1..PrintLen |-> (i * 37 + 5 * (i \div 7)) % 256] }

\* the lengths of the buffers read: a byte, a row, a row and a byte
Chunk_Sizes == {1, Hexadecimal_Columns, Hexadecimal_Columns + 1}

PrintInit ==
    /\ pc = "format_print"
    /\ GlobalsInit
    /\ NoProcess
    /\ \E mode \in Print_Modes :
         Format_Options = [Default_Format_Options EXCEPT !.output_mode = mode]
    /\ stream \in Print_Streams
    /\ chunks = << >>
    /\ acc = << >>

\* one call of format_print on the next n bytes of the stream, every write
\* taken whole: acc holds the bytes printed so far, chunks the last buffer
PrintFeed ==
    /\ pc = "format_print"
    /\ \E n \in {k \in Chunk_Sizes : k <= Len(stream) - Len(acc)} :
         \E buff \in {SubSeq(stream, Len(acc) + 1, Len(acc) + n)} :
           \E f \in {format_print(Format_Options.output_mode, Color_Chars, buff,
                                  stdout_cursor_x, stdout_split_bytes)} :
             \E r \in {Perform(f.calls, NoFault)} :
               /\ stdout_cursor_x' = f.x
               /\ stdout_split_bytes' = f.bytes
               /\ console' = console \o r.out
               /\ console_offered' = console_offered \o r.offered
               /\ acc' = acc \o buff
               /\ chunks' = << buff >>
    /\ UNCHANGED << pc, cfg_vars, txhex_state, rxnl_state, stream, options,
                    ready, iter, serial_tx, serial_offered, last_read, tty_vars,
                    cause, exit_code >>

SpecPrint == PrintInit /\ [][PrintFeed]_vars

----------------------------------------------------------------------------
(* Claims about the formatted print *)

\* what follows the hex digits of the i-th byte of a hexadecimal dump
HexSeparator(i) ==
    IF i % Hexadecimal_Columns = Hexadecimal_Columns \div 2 THEN Spaces(2)
    ELSE IF i % Hexadecimal_Columns = 0 THEN << Ord_LF >>
    ELSE Spaces(1)

\* the hexadecimal dump of the bytes b, from column 0
HexLayout(b) == Concat([i \in 1..Len(b) |-> Format02x(b[i]) \o HexSeparator(i)])

Count(seq, c) == Cardinality({i \in 1..Len(seq) : seq[i] = c})

\* C12: hexadecimal dump layout and wrap: in mode hex with no colours, from
\* column 0, after any calls whose buffers total N bytes the console holds,
\* for the i-th byte, its two lowercase hex digits followed by two spaces if
\* i mod 16 = 8, by a newline if i mod 16 = 0, by one space otherwise; so
\* floor(N/16) newlines were written (2 rows for 32 bytes), stdout_cursor_x
\* is N mod 16, and the output does not depend on how the bytes were split.
C12_HexLayout ==
    Format_Options.output_mode = "hex" =>
        /\ console = HexLayout(acc)
        /\ Count(console, Ord_LF) = Len(acc) \div Hexadecimal_Columns
        /\ stdout_cursor_x = Len(acc) % Hexadecimal_Columns

\* 32 bytes were printed, the last 17 by one call across the end of a row
C12_Witness ==
    /\ pc = "format_print"
    /\ Format_Options.output_mode = "hex"
    /\ Len(acc) = 2 * Hexadecimal_Columns
    /\ Len(chunks[1]) = Hexadecimal_Columns + 1
    /\ Count(console, Ord_LF) = 2
    /\ stdout_cursor_x = 0

\* the hexadecimal block of a row: two digits and a space per byte, one more
\* space after the 8th
RowHex(b) ==
    Concat([i \in 1..Len(b) |->
              Format02x(b[i])
                \o Spaces(IF i = Hexadecimal_Columns \div 2 THEN 2 ELSE 1)])

\* the ASCII block of a row: the byte if it is printable, a dot if not
RowAscii(b) == [i \in 1..Len(b) |-> IF IsPrintable(b[i]) THEN b[i] ELSE Ord(".")]

\* the width of the hexadecimal block of a full row
RowHexWidth == 3 * Hexadecimal_Columns + 1

\* a rendered row of 1 to 16 bytes: the hexadecimal block filled up to the
\* width of a full row, " |", the ASCII block, "|"
RowRender(b) ==
    RowHex(b) \o Spaces(RowHexWidth - Len(RowHex(b)))
        \o << Ord(" "), Ord_Bar >> \o RowAscii(b) \o << Ord_Bar >>

\* the full rows of the bytes b, each with its terminator
FullRows(b) ==
    Concat([r \in 1..(Len(b) \div Hexadecimal_Columns) |->
              RowRender(SubSeq(b, Hexadecimal_Columns * (r - 1) + 1,
                               Hexadecimal_Columns * r))
                \o Console_Newline])

\* the bytes of b after its last full row
Pending(b) == SubSeq(b, Len(b) - (Len(b) % Hexadecimal_Columns) + 1, Len(b))

IsSuffix(t, s) == Len(t) <= Len(s) /\ SubSeq(s, Len(s) - Len(t) + 1, Len(s)) = t

\* C13: splitfull row completion: in mode splitfull, from an empty window,
\* after any calls whose buffers total N bytes exactly floor(N/16) rows were
\* written, each a complete row of 16 bytes (hexadecimal block, ASCII block,
\* terminator); stdout_split_bytes holds the last N mod 16 bytes; no carriage
\* return and no partial row was written (16 bytes give exactly one row).
C13_SplitfullRows ==
    Format_Options.output_mode = "splitfull" =>
        /\ console = FullRows(acc)
        /\ Count(console, Ord_LF) = Len(acc) \div Hexadecimal_Columns
        /\ Count(console, Ord_CR) = 0
        /\ stdout_split_bytes = Pending(acc)

\* a buffer of a byte, then one of 16 bytes ending inside the second row: one
\* row written, one byte pending
C13_Witness ==
    /\ pc = "format_print"
    /\ Format_Options.output_mode = "splitfull"
    /\ Len(acc) = Hexadecimal_Columns + 1
    /\ Len(chunks[1]) = Hexadecimal_Columns
    /\ console = RowRender(SubSeq(stream, 1, Hexadecimal_Columns)) \o Console_Newline
    /\ stdout_split_bytes = << stream[Hexadecimal_Columns + 1] >>

\* C14: split live partial row: in mode split, after every call that leaves a
\* non-empty window the last thing written to the console is a render of
\* exactly the bytes of the window, with no terminator after it; 17 bytes
\* given to an empty window write one full terminated row and then the
\* partial row of the 17th byte.
C14_SplitPartialRow ==
    Format_Options.output_mode = "split" =>
        /\ stdout_split_bytes = Pending(acc)
        /\ stdout_split_bytes # << >> =>
              IsSuffix(RowRender(stdout_split_bytes), console)
        /\ (chunks # << >> /\ Len(acc) = Hexadecimal_Columns + 1
              /\ Len(chunks[1]) = Hexadecimal_Columns + 1) =>
              console = FullRows(acc) \o RowRender(Pending(acc))

\* 17 bytes were given to the empty window by one call
C14_Witness ==
    /\ pc = "format_print"
    /\ Format_Options.output_mode = "split"
    /\ Len(acc) = Hexadecimal_Columns + 1
    /\ Len(chunks[1]) = Hexadecimal_Columns + 1
    /\ Len(stdout_split_bytes) = 1
    /\ Count(console, Ord_LF) = 1

\* the hexadecimal dump of the bytes b with newlines interpreted, from column
\* x after the text out: the text and the column it ends at
RECURSIVE HexnlLayout(_, _)
HexnlLayout(b, s) ==
    IF b = << >> THEN s
    ELSE Bind([out |-> s.out \o Format02x(Head(b)) \o HexSeparator(s.x + 1)
                         \o (IF Head(b) = Ord_LF THEN << Ord_LF >> ELSE << >>),
               x |-> IF Head(b) = Ord_LF THEN 0
                     ELSE (s.x + 1) % Hexadecimal_Columns],
              LAMBDA t : HexnlLayout(Tail(b), t))

\* C16: hexnl row break: in mode hexnl, for every byte equal to the console
\* newline a row break is written after the byte's hex token and
\* stdout_cursor_x is 0 right after it, whatever it was before; for every
\* other byte the output and the cursor are those of mode hex.
C16_HexnlRowBreak ==
    Format_Options.output_mode = "hexnl" =>
        /\ console = HexnlLayout(acc, [out |-> << >>, x |-> 0]).out
        /\ stdout_cursor_x = HexnlLayout(acc, [out |-> << >>, x |-> 0]).x
        /\ (acc # << >> /\ acc[Len(acc)] = Ord_LF) =>
              (stdout_cursor_x = 0 /\ console[Len(console)] = Ord_LF)
        /\ Count(acc, Ord_LF) = 0 =>
              (console = HexLayout(acc)
                 /\ stdout_cursor_x = Len(acc) % Hexadecimal_Columns)

\* a newline byte was printed at column 2 among other bytes, read one by one
C16_Witness ==
    /\ pc = "format_print"
    /\ Format_Options.output_mode = "hexnl"
    /\ acc = << Ord("a"), Ord("a"), Ord_LF >>
    /\ stdout_cursor_x = 0
    /\ console = Str(<< "6", "1", " ", "6", "1", " ", "0", "a", " ", "\n" >>)

\* the last row of the bytes printed so far: 1 to 16 bytes
LastRow(b) ==
    SubSeq(b, Len(b) - ((Len(b) - 1) % Hexadecimal_Columns), Len(b))

\* the index of the first "|" of a text
FirstBar(text) == Minimum({i \in 1..Len(text) : text[i] = Ord_Bar})

\* C20: split row constant width: with no colours, for a window of 1 to 16
\* bytes the text split_print writes before the " |" separator of the ASCII
\* block is 3*16+1 = 49 characters long, so the ASCII block of a partial row
\* starts at the column where that of a full row starts.
C20_SplitRowWidth ==
    (Format_Options.output_mode = "split" /\ acc # << >>) =>
        \A text \in {Perform(split_print(Color_Chars, LastRow(acc), stdout_cursor_x),
                             NoFault).out} :
            /\ FirstBar(text) = 3 * Hexadecimal_Columns + 1 + 2
            /\ text[FirstBar(text) - 1] = Ord(" ")
            /\ Len(text) = 3 * Hexadecimal_Columns + 1 + 2 + Len(LastRow(acc)) + 1
            /\ IsSuffix(IF stdout_split_bytes = << >>
                        THEN text \o Console_Newline ELSE text, console)

\* a partial row of 3 bytes was printed after a full row
C20_Witness ==
    /\ pc = "format_print"
    /\ Format_Options.output_mode = "split"
    /\ Color_Chars = No_Color_Chars
    /\ Len(stdout_split_bytes) = 3
    /\ Len(acc) = Hexadecimal_Columns + 3
    /\ console[Len(console) - 3 - 1] = Ord_Bar

----------------------------------------------------------------------------
(* Claims about the chains of the loop *)

\* what a console newline becomes on the way to the serial port
Newline_Substitute ==
    [raw |-> << Ord_LF >>, none |-> << >>, cr |-> << Ord_CR >>,
     lf |-> << Ord_LF >>, crlf |-> << Ord_CR, Ord_LF >>]

\* T: every console newline of the chunk replaced, the rest as it is
RefNewlineSub(mode, chunk) ==
    Concat([i \in 1..Len(chunk) |->
              IF chunk[i] = Ord_LF THEN Newline_Substitute[mode]
              ELSE << chunk[i] >>])

\* the number of hexadecimal digits a text ends with
RECURSIVE TrailingRun(_)
TrailingRun(s) ==
    IF s = << >> \/ s[Len(s)] \notin string_hexdigits THEN 0
    ELSE 1 + TrailingRun(SubSeq(s, 1, Len(s) - 1))

\* the digit left without its pair at the end of a text
RefPending(s) == IF TrailingRun(s) % 2 = 1 THEN << s[Len(s)] >> ELSE << >>

\* a step that read a chunk without the escape character from stdin and
\* wrote to the serial port without an error
StdinRelayed ==
    /\ pc = "loop"
    /\ "stdin" \in ready
    /\ "stdin" \notin ready'
    /\ last_read'.stdin.buff # << >>

\* C15: transmit chain: for every chunk read from stdin that does not hold
\* the escape character, the bytes written to the serial port are D(T(chunk)):
\* T replaces every console newline by the substitute of --tx-nl (none for
\* raw, deletion for none) and leaves the rest in order; D is the identity in
\* raw input mode and the stateful hex decoding in hex input mode; T comes
\* before D, so with none a newline between two digits does not reset the
\* accumulator.
C15_TransmitChain ==
    [][StdinRelayed =>
          \A text \in {RefNewlineSub(Format_Options.transmit_newline,
                                     last_read'.stdin.buff)} :
              IF Format_Options.input_mode = "hex"
              THEN /\ serial_offered' =
                         serial_offered \o RefHexDecode(txhex_state \o text)
                   /\ txhex_state' = RefPending(txhex_state \o text)
              ELSE /\ serial_offered' = serial_offered \o text
                   /\ txhex_state' = txhex_state]_vars

\* with --tx-nl none -i hex, "1\n" and then "4" were read: 0x14 was written
C15_Witness ==
    /\ pc = "loop"
    /\ Format_Options.transmit_newline = "none"
    /\ Format_Options.input_mode = "hex"
    /\ last_read.stdin.buff = << Ord("4") >>
    /\ serial_offered = << 20 >>
    /\ txhex_state = << >>

\* C17: receive-newline carry: after every call of format_rx_nlsub
\* rxnl_state holds at most one character, and it is non-empty only when the
\* end of the buffer fell inside a two-character newline pattern (mode crlf,
\* the stream so far ending in "\r"); in the modes cr, lf and crorlf it is
\* empty after every call, so no received byte is kept from the formatter.
C17_RxCarry ==
    pc = "rx" =>
        /\ Len(rxnl_state) <= 1
        /\ rxnl_state # << >> =>
              /\ Format_Options.receive_newline = "crlf"
              /\ chunks # << >>
              /\ Concat(chunks)[Len(Concat(chunks))] = Ord_CR
        /\ Format_Options.receive_newline \in {"cr", "lf", "crorlf"} =>
              (rxnl_state = << >> /\ Len(acc) = Len(Concat(chunks)))

\* the causes of leaving the loop that are failures of a read or a write
IOErrorCauses == LoopCauses \ {"escape"}

\* C18: fatal I/O stops the loop at once: when a read or a write on the
\* serial port or the console fails, the loop is left and the process ends
\* with an error; nothing more is read or written on either descriptor (a
\* failure on the way from stdin to the serial port keeps the serial data
\* ready in the same iteration from being read), and the operation that
\* failed is not tried again.
C18_FatalIOStopsLoop ==
    [][/\ cause \in IOErrorCauses => FALSE
       /\ cause' \in IOErrorCauses =>
            /\ pc' = "exited"
            /\ exit_code' # 0
            /\ ready' = ready
            /\ cause' \in {"stdin_read_error", "serial_write_error"} =>
                  /\ serial_tx' = serial_tx
                  /\ serial_offered' = serial_offered
                  /\ console' = console
                  /\ console_offered' = console_offered
                  /\ last_read'.serial = last_read.serial
            /\ cause' = "serial_read_error" =>
                  /\ UNCHANGED << serial_tx, serial_offered, console, console_offered >>
                  /\ last_read'.stdin = last_read.stdin
            /\ cause' = "stdout_write_error" =>
                  /\ UNCHANGED << serial_tx, serial_offered >>
                  /\ last_read'.stdin = last_read.stdin]_vars

\* the write to the serial port failed while the serial port was ready too:
\* the process has ended and the serial port was not read
C18_Witness ==
    /\ pc = "exited"
    /\ cause = "serial_write_error"
    /\ ready = {"stdin", "serial"}
    /\ last_read.stdin.buff = << Ord("1"), Ord_LF >>
    /\ last_read.serial = No_Read
    /\ serial_tx = << >>

\* a step that read a chunk from the serial port and printed it without an
\* error
SerialRelayed ==
    /\ pc = "loop"
    /\ "serial" \in ready
    /\ "serial" \notin ready'
    /\ last_read'.serial.buff # << >>

\* C19: sentinel scope: the loop is left by escape only when a chunk read
\* from stdin holds the byte 0x1D; a 0x1D read from the serial port, or one
\* made by the hex decoding of console text ("1d" in hex input mode), does
\* not end the loop and is relayed like any other byte.
C19_SentinelScope ==
    [][/\ cause' = "escape" => EscapeRead'
       /\ (SerialRelayed /\ Contains(last_read'.serial.buff, Quit_Escape_Character)) =>
            /\ pc' = "loop"
            /\ cause' = "none"
            /\ \/ Len(console_offered') > Len(console_offered)
               \/ /\ Format_Options.output_mode = "splitfull"
                  /\ IsSuffix(<< Quit_Escape_Character >>, stdout_split_bytes')
            /\ Format_Options.output_mode = "raw" =>
                  IsSuffix(<< Quit_Escape_Character >>, console_offered')
       /\ (StdinRelayed /\ Format_Options.input_mode = "hex"
             /\ txhex_state = << >>
             /\ last_read'.stdin.buff = << Ord("1"), Ord("d") >>) =>
            /\ pc' = "loop"
            /\ cause' = "none"
            /\ serial_offered' = serial_offered \o << Quit_Escape_Character >>]_vars

\* in hex input mode "1d" was read from stdin and 0x1D written to the serial
\* port, then 0x1D was read from the serial port: the loop goes on
C19_Witness ==
    /\ pc = "loop"
    /\ cause = "none"
    /\ Format_Options.input_mode = "hex"
    /\ last_read.stdin.buff = << Ord("1"), Ord("d") >>
    /\ serial_offered = << Quit_Escape_Character >>
    /\ last_read.serial.buff = << Quit_Escape_Character >>

----------------------------------------------------------------------------
(* Claims about redraw, shutdown and the independence of the directions *)

\* what a step has added to the console
Written == SubSeq(console', Len(console) + 1, Len(console'))

\* C21: split redraw ordering: in mode split, over any non-empty buffers, a
\* partial row left on the console is followed, before any other row text, by
\* exactly one carriage return, written at the start of the next call; and a
\* call starts with a carriage return only when a partial row is displayed
\* (stdout_split_bytes is not empty).
C21_SplitRedrawOrdering ==
    [][(Format_Options.output_mode = "split" /\ pc = "format_print") =>
          /\ IsPrefix(console, console')
          /\ stdout_split_bytes # << >> =>
                /\ IsSuffix(RowRender(stdout_split_bytes), console)
                /\ Written[1] = Ord_CR
                /\ Count(Written, Ord_CR) = 1
          /\ stdout_split_bytes = << >> => Count(Written, Ord_CR) = 0]_vars

\* three buffers of one byte were printed: two redraws of the partial row
C21_Witness ==
    /\ pc = "format_print"
    /\ Format_Options.output_mode = "split"
    /\ Len(acc) = 3
    /\ Len(stdout_split_bytes) = 3
    /\ Count(console, Ord_CR) = 2

\* C24: hexnl writes no blank row: in mode hexnl, for any stream and any
\* split into buffers, the console never holds two line terminators in a
\* row: a newline byte and a wrap at the 16th column give one row break each,
\* even when the newline byte is the 16th byte of its row.
C24_HexnlNoBlankRow ==
    Format_Options.output_mode = "hexnl" =>
        \A i \in 1..(Len(console) - 1) :
            ~(console[i] = Ord_LF /\ console[i + 1] = Ord_LF)

\* C22: no flush at clean shutdown: once the chunk holding the escape
\* character has been read from stdin, the loop writes nothing more to the
\* console or to the serial port (the newline of the final print is all the
\* program adds); a pending stdout_split_bytes (in splitfull, a row not yet
\* rendered), a held rxnl_state and a pending txhex_state are left as they
\* are and never written.
C22_NoFlushAtShutdown ==
    [][cause' = "escape" =>
          /\ serial_tx' = serial_tx
          /\ serial_offered' = serial_offered
          /\ UNCHANGED state_vars
          /\ \/ UNCHANGED << console, console_offered >>
             \/ /\ pc = "print"
                /\ console' = console \o Console_Newline
                /\ console_offered' = console_offered \o Console_Newline]_vars

\* in mode splitfull "a" was received and not rendered, then the escape
\* character was read: the process has ended cleanly with only the final
\* newline on the console
C22_Witness ==
    /\ pc = "exited"
    /\ cause = "escape"
    /\ exit_code = 0
    /\ Format_Options.output_mode = "splitfull"
    /\ stdout_split_bytes = << Ord("a") >>
    /\ console = Console_Newline

\* C23: the whole chunk of the escape character is dropped: when a chunk read
\* from stdin holds the escape character, no byte of the chunk is written to
\* the serial port, the bytes before the escape character included;
\* txhex_state is left unchanged; and serial data ready in the same iteration
\* is neither read nor printed.
C23_WholeEscapeChunkDropped ==
    [][EscapeRead' =>
          /\ serial_tx' = serial_tx
          /\ serial_offered' = serial_offered
          /\ txhex_state' = txhex_state
          /\ last_read'.serial = last_read.serial
          /\ ready' = ready
          /\ pc = "loop" =>
                (pc' = "print" /\ UNCHANGED << console, console_offered, rxnl_state,
                                               stdout_cursor_x, stdout_split_bytes >>)]_vars

\* in hex input mode "4" was pending when "a\x1db" was read with the serial
\* port ready too: no 0x4a was written and the serial port was not read
C23_Witness ==
    /\ pc = "print"
    /\ cause = "escape"
    /\ Format_Options.input_mode = "hex"
    /\ txhex_state = << Ord("4") >>
    /\ last_read.stdin.buff = << Ord("a"), Quit_Escape_Character, Ord("b") >>
    /\ ready = {"stdin", "serial"}
    /\ last_read.serial = No_Read
    /\ serial_offered = << >>

\* C25: independence of the directions (frame): handling a chunk from stdin
\* changes at most txhex_state and leaves rxnl_state, stdout_cursor_x and
\* stdout_split_bytes (and the console) unchanged; handling a chunk from the
\* serial port changes at most rxnl_state and the state of the formatter and
\* leaves txhex_state (and the serial output) unchanged; so, with both
\* descriptors ready, what is written to either side does not depend on the
\* order in which the two directions are handled.
C25_DirectionIndependence ==
    [][/\ (pc = "loop" /\ "stdin" \in ready) =>
            UNCHANGED << rxnl_state, stdout_cursor_x, stdout_split_bytes,
                         console, console_offered >>
       /\ (pc = "loop" /\ ready = {"serial"}) =>
            UNCHANGED << txhex_state, serial_tx, serial_offered >>]_vars

\* with --rx-nl crlf "\r" was held back from the serial port, then "4" was
\* read from stdin and written: the carry is still held
C25_Witness ==
    /\ pc = "loop"
    /\ Format_Options.receive_newline = "crlf"
    /\ rxnl_state = << Ord_CR >>
    /\ last_read.serial.buff = << Ord_CR >>
    /\ last_read.stdin.buff = << Ord("4") >>
    /\ serial_offered = << Ord("4") >>
    /\ ready = {}

====
